---------------------------- MODULE Spec2Model ----------------------------
(***************************************************************************)
(* Model of converter.py (IFC to glTF converter).                          *)
(*                                                                         *)
(*   extract_material_colors  three passes building the id -> RGBA map     *)
(*   get_product_color        appearance resolution for one product        *)
(*   convert_ifc_to_gltf      the element loop, the mesh buffers and the   *)
(*                            final export                                 *)
(*                                                                         *)
(* Floats are fixed-point integers in thousandths (One = 1.0).  A Python   *)
(* dict is a function with a finite domain, None for a color is the empty  *)
(* tuple (falsy, like None), None for a texture is the empty string.       *)
(* The object graph of the IFC file is supplied by ifcopenshell; it is an  *)
(* input here: entity ids are unique per entity and the answer of is_a()   *)
(* is a function of the entity (TypeOf).                                   *)
(***************************************************************************)
EXTENDS Integers, Sequences, FiniteSets, TLC

VARIABLES
    pc,               \* position in the function being run
    ifc_file,         \* input of extract_material_colors
    material_colors,  \* dict id -> [r, g, b, a]
    textures,         \* dict id -> URL reference
    product,          \* input of get_product_color
    product_info,     \* result of get_product_color
    products,         \* convert_ifc_to_gltf: the filtered product list
    i,                \* convert_ifc_to_gltf: loop index (0-based, next product)
    all_vertices,     \* list of per-product vertex arrays
    all_faces,        \* list of per-product adjusted face arrays
    all_colors,       \* list of per-product vertex color arrays
    vertex_offset,
    successful,
    export_calls,     \* number of times the mesh was handed to the exporter
    exported,         \* the buffers handed to the exporter
    result,           \* return value of convert_ifc_to_gltf
    logged            \* the error convert_ifc_to_gltf logged, if any

vars == <<pc, ifc_file, material_colors, textures, product, product_info,
          products, i, all_vertices, all_faces, all_colors, vertex_offset,
          successful, export_calls, exported, result, logged>>

colorVars == <<ifc_file, material_colors>>
resolveVars == <<product, product_info>>
loopVars == <<products, i, all_vertices, all_faces, all_colors, vertex_offset,
              successful, export_calls, exported, result, logged>>

---------------------------------------------------------------------------
(* Bounds of the model.                                                    *)
MaxStyles == 2
MaxProducts == 3
MaxAssoc == 2

(* 1.0 in thousandths.                                                     *)
One == 1000

Min(a, b) == IF a <= b THEN a ELSE b
Max(a, b) == IF a >= b THEN a ELSE b

SeqsUpTo(S, n) == UNION {[1..k -> S] : k \in 0..n}

RECURSIVE Concat(_)
Concat(ss) == IF ss = <<>> THEN <<>> ELSE Head(ss) \o Concat(Tail(ss))

(* Entity ids, by the type is_a() reports for the entity.                  *)
StyleIds == 1..9
MaterialIds == 11..19
StyledItemIds == 21..29

TypeOf(id) ==
    IF id \in StyleIds THEN "IfcSurfaceStyle"
    ELSE IF id \in MaterialIds THEN "IfcMaterial"
    ELSE IF id \in StyledItemIds THEN "IfcStyledItem"
    ELSE "IfcPresentationStyleAssignment"

---------------------------------------------------------------------------
(* extract_material_colors                                                 *)

\* min(1.0, max(0.0, x))
Clamp(x) == Min(One, Max(0, x))

\* Faulty variant: a transparency outside [0,1] falls back to opaque.
AlphaDefaultOutside(t) ==
    IF t.kind = "number" /\ t.val >= 0 /\ t.val <= One THEN One - t.val ELSE One

\* Lines 45-52: a = 1.0 unless Transparency is present and float() accepts it.
Alpha(t) ==
    IF t.kind = "None" THEN One
    ELSE IF t.kind = "unparsable" THEN One
    ELSE Clamp(One - t.val)

\* Lines 39-53 for one item of style.Styles: the entry it writes, or none.
Rendered(style_item) ==
    style_item.rendering /\ style_item.SurfaceColour # <<>>

RGBA(style_item) ==
    <<Clamp(style_item.SurfaceColour[1]),
      Clamp(style_item.SurfaceColour[2]),
      Clamp(style_item.SurfaceColour[3]),
      Alpha(style_item.Transparency)>>

\* Lines 38-54: the items of one style, in order; a later item overwrites.
RECURSIVE StyleItems(_, _, _)
StyleItems(items, sid, mc) ==
    IF items = <<>> THEN mc
    ELSE StyleItems(Tail(items), sid,
                    IF Rendered(Head(items))
                    THEN (sid :> RGBA(Head(items))) @@ mc
                    ELSE mc)

\* Lines 35-54
RECURSIVE Pass1(_, _)
Pass1(styles, mc) ==
    IF styles = <<>> THEN mc
    ELSE Pass1(Tail(styles), StyleItems(Head(styles).Styles, Head(styles).id, mc))

\* Faulty variant: links a material to any item in the map, whatever its type.
LinksAny(item, mc) == item \in DOMAIN mc

\* Line 65
Links(item, mc) == TypeOf(item) = "IfcSurfaceStyle" /\ item \in DOMAIN mc

\* Lines 60-67 over the flattened items of one material.
RECURSIVE MaterialItems(_, _, _)
MaterialItems(items, mid, mc) ==
    IF items = <<>> THEN mc
    ELSE MaterialItems(Tail(items), mid,
                       IF Links(Head(items), mc)
                       THEN (mid :> mc[Head(items)]) @@ mc
                       ELSE mc)

\* rep.Representations -> representation.Items, in iteration order.
ItemsOf(material) == Concat(Concat(material.HasRepresentation))

\* Lines 57-67
RECURSIVE Pass2(_, _)
Pass2(materials, mc) ==
    IF materials = <<>> THEN mc
    ELSE Pass2(Tail(materials),
               MaterialItems(ItemsOf(Head(materials)), Head(materials).id, mc))

\* Lines 73-76
RECURSIVE StyledItemStyles(_, _, _)
StyledItemStyles(styles, sid, mc) ==
    IF styles = <<>> THEN mc
    ELSE StyledItemStyles(Tail(styles), sid,
                          IF Head(styles) \in DOMAIN mc
                          THEN (sid :> mc[Head(styles)]) @@ mc
                          ELSE mc)

\* Line 73 raises TypeError when Styles is None.
Pass3Raises(styled_items) ==
    \E k \in DOMAIN styled_items : styled_items[k].StylesIsNone

\* Lines 70-76
RECURSIVE Pass3(_, _)
Pass3(styled_items, mc) ==
    IF styled_items = <<>> THEN mc
    ELSE Pass3(Tail(styled_items),
               StyledItemStyles(Head(styled_items).Styles, Head(styled_items).id, mc))

---------------------------------------------------------------------------
(* get_product_color                                                       *)

NoColor == <<>>
NoTexture == ""
NoInfo == [color |-> NoColor, texture |-> NoTexture]

\* Faulty variant: the last matching layer wins.
RECURSIVE LastLayer(_, _)
LastLayer(layers, mc) ==
    IF layers = <<>> THEN 0
    ELSE IF LastLayer(Tail(layers), mc) # 0 THEN LastLayer(Tail(layers), mc)
    ELSE IF Head(layers) # 0 /\ Head(layers) \in DOMAIN mc THEN Head(layers)
    ELSE 0

\* Lines 142-144: the first layer whose Material is set and in the map
\* (0 when there is none).  A layer is the id of its Material, 0 for None.
RECURSIVE FirstLayer(_, _)
FirstLayer(layers, mc) ==
    IF layers = <<>> THEN 0
    ELSE IF Head(layers) # 0 /\ Head(layers) \in DOMAIN mc THEN Head(layers)
    ELSE FirstLayer(Tail(layers), mc)

\* Lines 136-144.  outcome is "return" (with info), "raise", or "next" when
\* the loop over HasAssociations ends without returning.
RECURSIVE ScanAssociations(_, _)
ScanAssociations(assocs, mc) ==
    IF assocs = <<>> THEN [outcome |-> "next", info |-> NoInfo]
    ELSE LET assoc == Head(assocs)
             material == assoc.RelatingMaterial
         IN  IF assoc.type # "IfcRelAssociatesMaterial"
             THEN ScanAssociations(Tail(assocs), mc)
             ELSE IF material.type = "None"
             THEN [outcome |-> "raise", info |-> NoInfo]
             ELSE IF material.type = "IfcMaterial" /\ material.id \in DOMAIN mc
             THEN [outcome |-> "return",
                   info |-> [color |-> mc[material.id], texture |-> NoTexture]]
             ELSE IF material.type = "IfcMaterialLayerSet"
                     /\ FirstLayer(material.MaterialLayers, mc) # 0
             THEN [outcome |-> "return",
                   info |-> [color |-> mc[FirstLayer(material.MaterialLayers, mc)],
                             texture |-> NoTexture]]
             ELSE ScanAssociations(Tail(assocs), mc)

\* Faulty variant: a texture is preferred to a color.
RECURSIVE ScanStyledTextureFirst(_, _, _)
ScanStyledTextureFirst(ids, mc, tx) ==
    IF ids = <<>> THEN NoInfo
    ELSE IF Head(ids) \in DOMAIN tx
    THEN [color |-> NoColor, texture |-> tx[Head(ids)]]
    ELSE IF Head(ids) \in DOMAIN mc
    THEN [color |-> mc[Head(ids)], texture |-> NoTexture]
    ELSE ScanStyledTextureFirst(Tail(ids), mc, tx)

\* Lines 152-157 over the styled items met in iteration order.
RECURSIVE ScanStyled(_, _, _)
ScanStyled(ids, mc, tx) ==
    IF ids = <<>> THEN NoInfo
    ELSE IF Head(ids) \in DOMAIN mc
    THEN [color |-> mc[Head(ids)], texture |-> NoTexture]
    ELSE IF Head(ids) \in DOMAIN tx
    THEN [color |-> NoColor, texture |-> tx[Head(ids)]]
    ELSE ScanStyled(Tail(ids), mc, tx)

\* Lines 147-152: Representation.Representations -> Items -> StyledByItem.
StyledByItems(p) ==
    IF p.HasRepresentation THEN Concat(Concat(p.Representations)) ELSE <<>>

\* Lines 133-162
GetProductColor(p, mc, tx) ==
    LET a == ScanAssociations(p.HasAssociations, mc)
    IN  IF a.outcome = "raise" THEN NoInfo
        ELSE IF a.outcome = "return" THEN a.info
        ELSE ScanStyled(StyledByItems(p), mc, tx)

---------------------------------------------------------------------------
(* convert_ifc_to_gltf                                                     *)

\* Line 207, in thousandths.
default_color == <<784, 784, 784, 1000>>

\* reshape(-1, 3) of a flat array whose length is a multiple of 3.
Reshape3(flat) ==
    [k \in 1..(Len(flat) \div 3) |-> <<flat[3 * k - 2], flat[3 * k - 1], flat[3 * k]>>]

\* Faulty variant: the triangle array is not checked for emptiness.
TessellatedNoFaceCheck(p) ==
    /\ p.shape = "ok"
    /\ Len(p.verts) > 0
    /\ Len(p.verts) % 3 = 0 /\ Len(p.faces) % 3 = 0

\* Lines 215-226: create_shape returned a shape whose arrays pass the checks
\* and reshape without raising.
Tessellated(p) ==
    /\ p.shape = "ok"
    /\ Len(p.verts) > 0 /\ Len(p.faces) > 0
    /\ Len(p.verts) % 3 = 0 /\ Len(p.faces) % 3 = 0

\* Faulty variant: the offset is one too large.
AdjustFacesOffByOne(face_indices, offset) ==
    [k \in DOMAIN face_indices |->
        [c \in 1..3 |-> face_indices[k][c] + offset + 1]]

\* Faulty variant: the local indices are stored unshifted.
AdjustFacesNoOffset(face_indices, offset) == face_indices

\* Line 238.  The uint32 sum wraps only from 2^32 vertices on, which no
\* run within the bounds of this model approaches.
AdjustFaces(face_indices, offset) ==
    [k \in DOMAIN face_indices |->
        [c \in 1..3 |-> face_indices[k][c] + offset]]

\* Faulty variant: no fallback to the default color.
ProductColorNoDefault(info) == info.color

\* Lines 229-235: `not product_color` holds for None.
ProductColor(info) == IF info.color = NoColor THEN default_color ELSE info.color

\* Line 243: np.tile(product_color, (n, 1))
Tile(color, n) == [k \in 1..n |-> color]

\* Faulty variant: the mesh is exported even when nothing was collected.
NeverEmpty(collected) == FALSE

\* Line 256: `not all_vertices`
NoGeometry(collected) == collected = <<>>

\* np.vstack
VStack(arrays) == Concat(arrays)

---------------------------------------------------------------------------
(* Inputs of extract_material_colors.                                      *)

Transparencies ==
    {[kind |-> "None", val |-> 0], [kind |-> "unparsable", val |-> 0]}
    \cup {[kind |-> "number", val |-> v] : v \in {0 - 500, 0, 250, 1000, 1500}}

Opaque == [kind |-> "None", val |-> 0]

StyleItemValues ==
    {[rendering |-> TRUE, SurfaceColour |-> <<1000, 0, 250>>, Transparency |-> t] :
        t \in Transparencies}
    \cup {[rendering |-> TRUE, SurfaceColour |-> <<0 - 500, 500, 1500>>,
           Transparency |-> [kind |-> "number", val |-> 250]],
          [rendering |-> FALSE, SurfaceColour |-> <<1000, 0, 250>>,
           Transparency |-> Opaque],
          [rendering |-> TRUE, SurfaceColour |-> <<>>,
           Transparency |-> [kind |-> "number", val |-> 250]]}

\* style.Styles: empty, one item, or a rendering followed by another item.
StylesValues ==
    {<<>>} \cup {<<x>> : x \in StyleItemValues}
    \cup {<<[rendering |-> TRUE, SurfaceColour |-> <<0, 0, 1000>>,
             Transparency |-> [kind |-> "number", val |-> 1000]], x>> :
            x \in {[rendering |-> TRUE, SurfaceColour |-> <<1000, 0, 250>>,
                    Transparency |-> [kind |-> "number", val |-> 1500]],
                   [rendering |-> FALSE, SurfaceColour |-> <<1000, 0, 250>>,
                    Transparency |-> Opaque]}}

\* by_type("IfcSurfaceStyle"): styles 1..n in file order.
StyleLists ==
    UNION {{[k \in 1..n |-> [id |-> k, Styles |-> f[k]]] : f \in [1..n -> StylesValues]} :
             n \in 0..MaxStyles}

Material(id, reps) == [id |-> id, HasRepresentation |-> reps]

\* by_type("IfcMaterial"); HasRepresentation -> Representations -> Items (ids).
MaterialLists ==
    { <<>>,
      <<Material(11, <<>>)>>,
      <<Material(11, << << <<1>> >> >>)>>,
      <<Material(11, << << <<2, 1>> >> >>)>>,
      <<Material(11, << << <<1>>, <<2>> >> >>)>>,
      <<Material(11, << << <<31>> >>, << <<>>, <<2>> >> >>),
        Material(12, << << <<11>> >> >>)>>,
      <<Material(11, << << <<2>> >> >>), Material(12, << << <<11, 1>> >> >>)>> }

StyledItem(id, styles) == [id |-> id, StylesIsNone |-> FALSE, Styles |-> styles]

\* by_type("IfcStyledItem"); Styles holds ids of styles, materials or other
\* presentation entities.
StyledItemLists ==
    { <<>>,
      <<StyledItem(21, <<1>>)>>,
      <<StyledItem(21, <<31>>)>>,
      <<StyledItem(21, <<11>>), StyledItem(22, <<31, 2>>)>>,
      <<StyledItem(21, <<2, 1>>), StyledItem(22, <<>>)>>,
      <<StyledItem(21, <<1>>), [id |-> 22, StylesIsNone |-> TRUE, Styles |-> <<>>]>> }

IfcFiles ==
    [styles : StyleLists, materials : MaterialLists, styled_items : StyledItemLists,
     products : {<<>>}]

NoFile == [styles |-> <<>>, materials |-> <<>>, styled_items |-> <<>>, products |-> <<>>]
NoProduct == [HasAssociations |-> <<>>, HasRepresentation |-> FALSE,
              Representations |-> <<>>, shape |-> "None", verts |-> <<>>, faces |-> <<>>]

---------------------------------------------------------------------------
(* Specification of extract_material_colors: one action per pass.          *)

InitColors ==
    /\ pc = "pass1"
    /\ ifc_file \in IfcFiles
    /\ material_colors = <<>>
    /\ textures = <<>>
    /\ product = NoProduct
    /\ product_info = NoInfo
    /\ products = <<>>
    /\ i = 0
    /\ all_vertices = <<>>
    /\ all_faces = <<>>
    /\ all_colors = <<>>
    /\ vertex_offset = 0
    /\ successful = 0
    /\ export_calls = 0
    /\ exported = <<>>
    /\ result = "running"
    /\ logged = ""

\* Lines 35-54
SurfaceStylesPass ==
    /\ pc = "pass1"
    /\ material_colors' = Pass1(ifc_file.styles, material_colors)
    /\ pc' = "pass2"
    /\ UNCHANGED <<ifc_file, textures, resolveVars, loopVars>>

\* Lines 57-67
MaterialsPass ==
    /\ pc = "pass2"
    /\ material_colors' = Pass2(ifc_file.materials, material_colors)
    /\ pc' = "pass3"
    /\ UNCHANGED <<ifc_file, textures, resolveVars, loopVars>>

\* Lines 70-85: the third pass, then return; any exception returns {}.
StyledItemsPass ==
    /\ pc = "pass3"
    /\ material_colors' = IF Pass3Raises(ifc_file.styled_items) THEN <<>>
                          ELSE Pass3(ifc_file.styled_items, material_colors)
    /\ pc' = IF Pass3Raises(ifc_file.styled_items) THEN "failed" ELSE "returned"
    /\ UNCHANGED <<ifc_file, textures, resolveVars, loopVars>>

NextColors == SurfaceStylesPass \/ MaterialsPass \/ StyledItemsPass

SpecColors == InitColors /\ [][NextColors]_vars

---------------------------------------------------------------------------
(* Inputs of get_product_color.                                            *)

NoLayers == <<>>
Other == [type |-> "IfcRelAssociatesClassification",
          RelatingMaterial |-> [type |-> "None", id |-> 0, MaterialLayers |-> NoLayers]]
Direct(id) == [type |-> "IfcRelAssociatesMaterial",
               RelatingMaterial |-> [type |-> "IfcMaterial", id |-> id,
                                     MaterialLayers |-> NoLayers]]
Layered(layers) == [type |-> "IfcRelAssociatesMaterial",
                    RelatingMaterial |-> [type |-> "IfcMaterialLayerSet", id |-> 15,
                                          MaterialLayers |-> layers]]
\* An association whose RelatingMaterial is None: material.is_a raises.
Dangling == [type |-> "IfcRelAssociatesMaterial",
             RelatingMaterial |-> [type |-> "None", id |-> 0, MaterialLayers |-> NoLayers]]

Associations ==
    {Other, Dangling, Direct(11), Direct(12),
     Layered(<<12>>), Layered(<<0, 12, 11>>), Layered(<<11, 12>>)}

AssociationLists == SeqsUpTo(Associations, MaxAssoc)

\* (HasRepresentation, Representations): each representation is a list of
\* items, each item the list of the ids of its StyledByItem.
Representation(reps) == [present |-> TRUE, reps |-> reps]
Representations ==
    { [present |-> FALSE, reps |-> <<>>],
      Representation(<<>>),
      Representation(<< << <<21>> >> >>),
      Representation(<< << <<22, 21>> >> >>),
      Representation(<< << <<>>, <<22>> >>, << <<21>> >> >>),
      Representation(<< << <<23>>, <<21>> >>, << <<22>> >> >>) }

ResolveProducts ==
    {[HasAssociations |-> a, HasRepresentation |-> r.present,
      Representations |-> r.reps, shape |-> "None", verts |-> <<>>, faces |-> <<>>] :
        a \in AssociationLists, r \in Representations}

ColorOf(id) == <<id * 10, 1000 - id * 10, 500, One>>
UrlOf(id) == IF id = 21 THEN "brick.png" ELSE "wood.png"

\* The two dict arguments, with any of the ids the products refer to as keys.
ColorDicts == {[k \in D |-> ColorOf(k)] : D \in SUBSET {11, 12, 21, 22}}
TextureDicts == {[k \in D |-> UrlOf(k)] : D \in {{}, {21}, {22}, {21, 22}}}

---------------------------------------------------------------------------
(* Specification of get_product_color: one call on arbitrary arguments.    *)

InitResolve ==
    /\ pc = "call"
    /\ ifc_file = NoFile
    /\ material_colors \in ColorDicts
    /\ textures \in TextureDicts
    /\ product \in ResolveProducts
    /\ product_info = NoInfo
    /\ products = <<>>
    /\ i = 0
    /\ all_vertices = <<>>
    /\ all_faces = <<>>
    /\ all_colors = <<>>
    /\ vertex_offset = 0
    /\ successful = 0
    /\ export_calls = 0
    /\ exported = <<>>
    /\ result = "running"
    /\ logged = ""

\* Lines 133-162
ResolveCall ==
    /\ pc = "call"
    /\ product_info' = GetProductColor(product, material_colors, textures)
    /\ pc' = "resolved"
    /\ UNCHANGED <<ifc_file, material_colors, textures, product, loopVars>>

NextResolve == ResolveCall

SpecResolve == InitResolve /\ [][NextResolve]_vars

---------------------------------------------------------------------------
(* Inputs of convert_ifc_to_gltf: the products of the file and the two     *)
(* indexes as the extraction left them.                                    *)

Triangle == [shape |-> "ok", verts |-> <<0, 0, 0, 1, 0, 0, 0, 1, 0>>, faces |-> <<0, 1, 2>>]
Quad == [shape |-> "ok", verts |-> <<5, 5, 0, 6, 5, 0, 6, 6, 0, 5, 6, 0>>,
         faces |-> <<0, 1, 2, 0, 2, 3>>]

\* Outcomes of create_shape that contribute nothing.
FailedShapes ==
    { [shape |-> "raise", verts |-> <<>>, faces |-> <<>>],
      [shape |-> "None", verts |-> <<>>, faces |-> <<>>],
      [shape |-> "ok", verts |-> <<>>, faces |-> <<0, 1, 2>>],
      [shape |-> "ok", verts |-> <<0, 0, 0, 1, 0, 0, 0, 1, 0>>, faces |-> <<>>],
      [shape |-> "ok", verts |-> <<0, 0, 0, 1, 0, 0, 0, 1>>, faces |-> <<0, 1, 2>>] }

Product(assocs, rep, mesh) ==
    [HasAssociations |-> assocs, HasRepresentation |-> rep.present,
     Representations |-> rep.reps,
     shape |-> mesh.shape, verts |-> mesh.verts, faces |-> mesh.faces]

Plain == Representation(<<>>)
StyledBy(id) == Representation(<< << <<id>> >> >>)

LoopProducts ==
    {Product(<<Direct(11)>>, StyledBy(21), m) : m \in {Triangle, Quad}}
    \cup {Product(<<>>, StyledBy(22), m) : m \in {Triangle, Quad}}
    \cup {Product(<<>>, Plain, Triangle),
          Product(<<>>, StyledBy(21), Triangle),
          Product(<<Dangling>>, StyledBy(21), Triangle),
          Product(<<>>, [present |-> FALSE, reps |-> <<>>], Triangle)}
    \cup {Product(<<Direct(11)>>, StyledBy(21), m) : m \in FailedShapes}

\* The loop is run on indexes that make every outcome of get_product_color
\* occur: a color, a texture (lines 156-157 look a styled item's id up in
\* textures), neither, and an internal error.
LoopColors == [k \in {11, 21} |-> ColorOf(k)]
LoopTextures == [k \in {22} |-> UrlOf(k)]

---------------------------------------------------------------------------
(* Specification of convert_ifc_to_gltf, from the product filter on.       *)

Init ==
    /\ pc = "filter"
    /\ ifc_file \in [styles : {<<>>}, materials : {<<>>}, styled_items : {<<>>},
                     products : SeqsUpTo(LoopProducts, MaxProducts)]
    /\ material_colors = LoopColors
    /\ textures = LoopTextures
    /\ product = NoProduct
    /\ product_info = NoInfo
    /\ products = <<>>
    /\ i = 0
    /\ all_vertices = <<>>
    /\ all_faces = <<>>
    /\ all_colors = <<>>
    /\ vertex_offset = 0
    /\ successful = 0
    /\ export_calls = 0
    /\ exported = <<>>
    /\ result = "running"
    /\ logged = ""

\* Lines 196-207
FilterProducts ==
    /\ pc = "filter"
    /\ products' = SelectSeq(ifc_file.products, LAMBDA p : p.HasRepresentation)
    /\ pc' = "loop"
    /\ UNCHANGED <<ifc_file, material_colors, textures, resolveVars, i, all_vertices,
                   all_faces, all_colors, vertex_offset, successful, export_calls,
                   exported, result, logged>>

\* Lines 209-251: one iteration of the loop over products.
ProcessProduct ==
    /\ pc = "loop"
    /\ i < Len(products)
    /\ LET p == products[i + 1]
           vertices == Reshape3(p.verts)
           face_indices == Reshape3(p.faces)
           info == GetProductColor(p, material_colors, textures)
       IN  IF Tessellated(p)
           THEN /\ product' = p
                /\ product_info' = info
                /\ all_vertices' = Append(all_vertices, vertices)
                /\ all_faces' = Append(all_faces, AdjustFaces(face_indices, vertex_offset))
                /\ all_colors' = Append(all_colors, Tile(ProductColor(info), Len(vertices)))
                /\ vertex_offset' = vertex_offset + Len(vertices)
                /\ successful' = successful + 1
           ELSE UNCHANGED <<product, product_info, all_vertices, all_faces, all_colors,
                            vertex_offset, successful>>
    /\ i' = i + 1
    /\ UNCHANGED <<pc, ifc_file, material_colors, textures, products, export_calls,
                   exported, result, logged>>

\* Lines 253-258
ReturnEmpty ==
    /\ pc = "loop"
    /\ i = Len(products)
    /\ NoGeometry(all_vertices)
    /\ logged' = "No geometry extracted"
    /\ result' = "False"
    /\ pc' = "done"
    /\ UNCHANGED <<ifc_file, material_colors, textures, resolveVars, products, i,
                   all_vertices, all_faces, all_colors, vertex_offset, successful,
                   export_calls, exported>>

\* Lines 260-288: the buffers are stacked and handed to the exporter, which
\* writes the file or raises.
Export ==
    /\ pc = "loop"
    /\ i = Len(products)
    /\ ~NoGeometry(all_vertices)
    /\ exported' = [vertices |-> VStack(all_vertices), faces |-> VStack(all_faces),
                    vertex_colors |-> VStack(all_colors)]
    /\ export_calls' = export_calls + 1
    /\ \/ result' = "True" /\ logged' = logged
       \/ result' = "False" /\ logged' = "Conversion failed"
    /\ pc' = "done"
    /\ UNCHANGED <<ifc_file, material_colors, textures, resolveVars, products, i,
                   all_vertices, all_faces, all_colors, vertex_offset, successful>>

Next == FilterProducts \/ ProcessProduct \/ ReturnEmpty \/ Export

Spec == Init /\ [][Next]_vars

---------------------------------------------------------------------------
(* Properties of extract_material_colors.                                  *)

Range(f) == {f[k] : k \in DOMAIN f}

RenderedItems(style) == SelectSeq(style.Styles, Rendered)

\* The last item of style.Styles that carries a rendering colour.
LastRendered(style) == RenderedItems(style)[Len(RenderedItems(style))]

RenderedStyles == {s \in Range(ifc_file.styles) : RenderedItems(s) # <<>>}

InRange(t) == t.kind = "number" /\ t.val >= 0 /\ t.val <= One

\* C4 as stated: alpha is 1 - t for t in [0,1], and 1.0 for a missing,
\* unparsable or out-of-range t (t < 0 or t > 1).
C4_AlphaAsClaimed ==
    pc \in {"pass2", "pass3", "returned"} =>
        \A s \in RenderedStyles :
            material_colors[s.id][4] =
                IF InRange(LastRendered(s).Transparency)
                THEN One - LastRendered(s).Transparency.val
                ELSE One

\* C4 (amended): for every surface style with a rendering colour, the
\* recorded alpha is 1 - t when t is a number in [0,1], 1.0 when t is missing,
\* unparsable or a number below 0, and 0.0 when t is a number above 1.
C4_AlphaClamped ==
    pc \in {"pass2", "pass3", "returned"} =>
        \A s \in RenderedStyles :
            LET t == LastRendered(s).Transparency
                a == material_colors[s.id][4]
            IN  /\ InRange(t) => a = One - t.val
                /\ t.kind \in {"None", "unparsable"} => a = One
                /\ (t.kind = "number" /\ t.val < 0) => a = One
                /\ (t.kind = "number" /\ t.val > One) => a = 0

C4_Witness ==
    /\ pc = "returned"
    /\ \E s \in RenderedStyles :
          /\ LastRendered(s).Transparency.kind = "number"
          /\ LastRendered(s).Transparency.val > One
          /\ material_colors[s.id][4] = 0
    /\ \E s \in RenderedStyles :
          /\ LastRendered(s).Transparency.kind = "number"
          /\ LastRendered(s).Transparency.val = 250
          /\ material_colors[s.id][4] = 750

MaterialEntities == Range(ifc_file.materials)
StyledItemEntities == Range(ifc_file.styled_items)

\* Ids that pass 1 or pass 2 can have written.
EarlierPassIds == {s.id : s \in RenderedStyles} \cup {m.id : m \in MaterialEntities}

\* C10: in the returned map every material entry is a copy of the entry of a
\* pass-1 style the material's representation references, every styled-item
\* entry is a copy of the entry of a referenced style that pass 1 or pass 2
\* wrote, a material or styled item none of whose references is in the map has
\* no entry, and every channel of every entry lies in [0,1].
C10_ThreePassDependency ==
    pc = "returned" =>
        /\ \A m \in MaterialEntities :
              m.id \in DOMAIN material_colors =>
                  \E it \in Range(ItemsOf(m)) :
                      /\ it \in {s.id : s \in RenderedStyles}
                      /\ material_colors[m.id] = material_colors[it]
        /\ \A si \in StyledItemEntities :
              si.id \in DOMAIN material_colors =>
                  \E st \in Range(si.Styles) :
                      /\ st \in EarlierPassIds
                      /\ st \in DOMAIN material_colors
                      /\ material_colors[si.id] = material_colors[st]
        /\ \A m \in MaterialEntities :
              (\A it \in Range(ItemsOf(m)) : it \notin DOMAIN material_colors)
                  => m.id \notin DOMAIN material_colors
        /\ \A si \in StyledItemEntities :
              (\A st \in Range(si.Styles) : st \notin DOMAIN material_colors)
                  => si.id \notin DOMAIN material_colors
        /\ \A k \in DOMAIN material_colors :
              \A c \in 1..4 : material_colors[k][c] >= 0 /\ material_colors[k][c] <= One

C10_Witness ==
    /\ pc = "returned"
    /\ \E m \in MaterialEntities, si \in StyledItemEntities, s \in RenderedStyles :
          /\ m.id \in DOMAIN material_colors
          /\ si.id \in DOMAIN material_colors
          /\ m.id \in Range(si.Styles)
          /\ s.id \in Range(ItemsOf(m))
          /\ material_colors[si.id] = material_colors[s.id]
          /\ LastRendered(s).SurfaceColour = <<0 - 500, 500, 1500>>
          /\ material_colors[s.id] = <<0, 500, 1000, 750>>

---------------------------------------------------------------------------
(* Properties of get_product_color.                                        *)

MinOf(S) == CHOOSE k \in S : \A j \in S : k <= j

MaterialAssociations ==
    SelectSeq(product.HasAssociations, LAMBDA a : a.type = "IfcRelAssociatesMaterial")

\* No association of the product makes the resolver raise.
WellFormed ==
    \A k \in DOMAIN MaterialAssociations :
        MaterialAssociations[k].RelatingMaterial.type # "None"

\* Ids of directly associated single materials that are in the color index.
DirectIndexed ==
    {MaterialAssociations[k].RelatingMaterial.id : k \in
        {j \in DOMAIN MaterialAssociations :
            /\ MaterialAssociations[j].RelatingMaterial.type = "IfcMaterial"
            /\ MaterialAssociations[j].RelatingMaterial.id \in DOMAIN material_colors}}

\* C3 as stated: a product with a direct single-material association whose id
\* is in the color index resolves to that material's color and no texture,
\* whatever layered associations (in any position) or styled items it has.
C3_DirectMaterialPrecedence ==
    (pc = "resolved" /\ WellFormed /\ Cardinality(DirectIndexed) = 1) =>
        \A m \in DirectIndexed :
            product_info = [color |-> material_colors[m], texture |-> NoTexture]

\* The styled items of the product in traversal order, and the positions of
\* those whose id is in either index.
Attached == StyledByItems(product)
Hits == {k \in DOMAIN Attached :
            Attached[k] \in DOMAIN material_colors \cup DOMAIN textures}

\* What the styled-item step yields: the first attached style in either index
\* decides, a color when it is in the color index, else its texture.
StyledReference ==
    IF Hits = {} THEN NoInfo
    ELSE IF Attached[MinOf(Hits)] \in DOMAIN material_colors
    THEN [color |-> material_colors[Attached[MinOf(Hits)]], texture |-> NoTexture]
    ELSE [color |-> NoColor, texture |-> textures[Attached[MinOf(Hits)]]]

NoMaterialAssociation == MaterialAssociations = <<>>

\* Attached style ids in the color index, and those only in the texture index.
ColoredStyles == Range(Attached) \cap DOMAIN material_colors
TexturedOnlyStyles == (Range(Attached) \cap DOMAIN textures) \ DOMAIN material_colors

OnlyLayered ==
    /\ Len(MaterialAssociations) = 1
    /\ MaterialAssociations[1].RelatingMaterial.type = "IfcMaterialLayerSet"

Layers == MaterialAssociations[1].RelatingMaterial.MaterialLayers
IndexedLayers == {k \in DOMAIN Layers :
                     Layers[k] # 0 /\ Layers[k] \in DOMAIN material_colors}

\* C8: when the only material association is a layered stack, the result is
\* the color of the first layer, in declared order, whose material is in the
\* color index (layers without material or absent from the index are
\* skipped); when no layer is in the index the result is that of the
\* styled-item step.
C8_FirstIndexedLayer ==
    (pc = "resolved" /\ OnlyLayered) =>
        IF IndexedLayers # {}
        THEN product_info = [color |-> material_colors[Layers[MinOf(IndexedLayers)]],
                             texture |-> NoTexture]
        ELSE product_info = StyledReference

C8_Witness ==
    /\ pc = "resolved"
    /\ OnlyLayered
    /\ Layers = <<0, 12, 11>>
    /\ DOMAIN material_colors = {11, 21}
    /\ Attached # <<>>
    /\ product_info = [color |-> ColorOf(11), texture |-> NoTexture]

C8_FallThroughWitness ==
    /\ pc = "resolved"
    /\ OnlyLayered
    /\ IndexedLayers = {}
    /\ Len(Layers) = 3
    /\ product_info.texture = "brick.png"

---------------------------------------------------------------------------
(* Properties of convert_ifc_to_gltf.                                      *)

\* The tessellator delivered a usable mesh for p: a shape with non-empty
\* vertex and triangle arrays that split into triples.
Contributes(p) ==
    /\ p.shape = "ok"
    /\ p.verts # <<>> /\ p.faces # <<>>
    /\ Len(p.verts) % 3 = 0 /\ Len(p.faces) % 3 = 0

\* The tessellator threw, returned nothing, or returned an empty array.
TessellationFailed(p) ==
    p.shape \in {"raise", "None"} \/ p.verts = <<>> \/ p.faces = <<>>

VertexCount(p) == Len(p.verts) \div 3
TriangleCount(p) == Len(p.faces) \div 3

TotalVertices == Len(VStack(all_vertices))

\* C1: in every state of the element loop every stored triangle index is
\* below the current total vertex count, and there are as many stored vertex
\* colors as stored vertices.
C1_AccumulatorInvariant ==
    /\ \A j \in DOMAIN all_faces : \A k \in DOMAIN all_faces[j] : \A c \in 1..3 :
          all_faces[j][k][c] >= 0 /\ all_faces[j][k][c] < TotalVertices
    /\ Len(VStack(all_colors)) = TotalVertices
    /\ vertex_offset = TotalVertices

C1_Witness ==
    /\ pc = "loop"
    /\ i = 3
    /\ successful = 2
    /\ ~Contributes(products[2])
    /\ TotalVertices = 7
    /\ \E k \in DOMAIN all_faces[2] : \E c \in 1..3 : all_faces[2][k][c] = 6

\* What resolution yields for p, and the color its vertices get.
Resolved(p) == GetProductColor(p, material_colors, textures)
ExpectedColor(p) ==
    IF Resolved(p).color # NoColor THEN Resolved(p).color ELSE <<784, 784, 784, 1000>>

\* The reference mesh of the first n products, in enumeration order: only
\* contributing products add anything, and a product's triangles are shifted
\* by the number of vertices the contributing products before it have.
RECURSIVE Reference(_)
Reference(n) ==
    IF n = 0 THEN [vertices |-> <<>>, faces |-> <<>>, vertex_colors |-> <<>>]
    ELSE LET before == Reference(n - 1)
             p == products[n]
             shift == Len(before.vertices)
         IN  IF ~Contributes(p) THEN before
             ELSE [vertices |-> before.vertices \o
                       [v \in 1..VertexCount(p) |->
                           <<p.verts[3 * (v - 1) + 1], p.verts[3 * (v - 1) + 2],
                             p.verts[3 * (v - 1) + 3]>>],
                   faces |-> before.faces \o
                       [t \in 1..TriangleCount(p) |->
                           <<p.faces[3 * (t - 1) + 1] + shift,
                             p.faces[3 * (t - 1) + 2] + shift,
                             p.faces[3 * (t - 1) + 3] + shift>>],
                   vertex_colors |-> before.vertex_colors \o
                       [v \in 1..VertexCount(p) |-> ExpectedColor(p)]]

Stacked == [vertices |-> VStack(all_vertices), faces |-> VStack(all_faces),
            vertex_colors |-> VStack(all_colors)]

\* Number of vertices in the first j stored vertex arrays.
RECURSIVE StoredBefore(_)
StoredBefore(j) == IF j = 0 THEN 0 ELSE StoredBefore(j - 1) + Len(all_vertices[j])

\* C2: the buffers collected after i products, and the mesh handed to the
\* exporter, equal the reference concatenation of the contributing products
\* (vertices concatenated, triangles shifted by the vertices of the
\* contributing products before, one color per vertex: the resolved color, or
\* the default gray when resolution gave None or a texture); no triangle
\* refers to a vertex of a later product.
C2_ReferenceConcatenation ==
    /\ pc \in {"loop", "done"} => Stacked = Reference(i)
    /\ (pc = "done" /\ export_calls > 0) => exported = Reference(Len(products))
    /\ \A j \in DOMAIN all_faces : \A k \in DOMAIN all_faces[j] : \A c \in 1..3 :
          /\ all_faces[j][k][c] >= StoredBefore(j - 1)
          /\ all_faces[j][k][c] < StoredBefore(j)

C2_Witness ==
    /\ pc = "done"
    /\ result = "True"
    /\ Len(products) = 3
    /\ Resolved(products[1]).color = ColorOf(11)
    /\ ~Contributes(products[2])
    /\ Contributes(products[3])
    /\ Resolved(products[3]).texture = "wood.png"
    /\ exported.vertex_colors =
          <<ColorOf(11), ColorOf(11), ColorOf(11), ColorOf(11),
            <<784, 784, 784, 1000>>, <<784, 784, 784, 1000>>, <<784, 784, 784, 1000>>>>
    /\ exported.faces = <<<<0, 1, 2>>, <<0, 2, 3>>, <<4, 5, 6>>>>

\* C5: the run ends with the failure "No geometry extracted" and without
\* calling the exporter exactly when no product was appended; when at least
\* one was appended the exporter is called exactly once, with the collected
\* buffers.
C5_EmptyMesh ==
    /\ export_calls <= 1
    /\ pc # "done" => export_calls = 0
    /\ pc = "done" =>
          /\ (successful = 0) <=> (logged = "No geometry extracted")
          /\ successful = 0 => (result = "False" /\ export_calls = 0 /\ exported = <<>>)
          /\ successful > 0 => (export_calls = 1 /\ exported = Stacked)

C5_Witness ==
    /\ pc = "done"
    /\ Len(ifc_file.products) = 3
    /\ Len(products) = 2
    /\ successful = 0
    /\ result = "False"
    /\ export_calls = 0

C5_ExportWitness ==
    /\ pc = "done"
    /\ successful = 1
    /\ Len(products) = 3
    /\ export_calls = 1
    /\ result = "True"

ContributingProducts == {k \in DOMAIN products : Contributes(products[k])}

\* A step on a product whose tessellation failed changes none of the buffers
\* and counters and moves on to the next product.
C6_StepIsolated ==
    (pc = "loop" /\ i < Len(products) /\ TessellationFailed(products[i + 1])) =>
        /\ UNCHANGED <<all_vertices, all_faces, all_colors, vertex_offset, successful>>
        /\ i' = i + 1
        /\ pc' = "loop"
        /\ result' = "running"

\* At the end every product was processed and the contributing ones counted;
\* when there is one the exporter is called, and only its failure fails the run.
C6_RunSurvives ==
    pc = "done" =>
        /\ i = Len(products)
        /\ successful = Cardinality(ContributingProducts)
        /\ ContributingProducts # {} =>
              /\ export_calls = 1
              /\ result = "True" \/ logged = "Conversion failed"

\* C6: a product whose tessellation throws, returns nothing or returns an
\* empty array leaves the vertices, triangles, colors, vertex offset and
\* success count unchanged and the loop moves on to the next product; at the
\* end every product was processed, the success count is the number of
\* contributing products, and when there is one the mesh goes to the exporter
\* and the run succeeds unless the exporter itself fails.
C6_TessellationFailureIsolated == [][C6_StepIsolated]_vars /\ []C6_RunSurvives

C6_Witness ==
    /\ pc = "done"
    /\ Len(products) = 3
    /\ Contributes(products[1])
    /\ products[2].shape = "raise"
    /\ Contributes(products[3])
    /\ i = 3
    /\ successful = 2
    /\ result = "True"
    /\ Len(exported.vertices) = VertexCount(products[1]) + VertexCount(products[3])

\* Resolution raises for p: its first material association has no material.
ResolutionRaises(p) ==
    \E k \in DOMAIN p.HasAssociations :
        /\ p.HasAssociations[k].type = "IfcRelAssociatesMaterial"
        /\ p.HasAssociations[k].RelatingMaterial.type = "None"
        /\ \A j \in 1..(k - 1) : p.HasAssociations[j].type # "IfcRelAssociatesMaterial"

RaisingProductNext ==
    /\ pc = "loop" /\ i < Len(products)
    /\ Contributes(products[i + 1])
    /\ ResolutionRaises(products[i + 1])

\* C9 as stated: a tessellated product whose appearance resolution throws is
\* skipped (nothing is appended, it is not counted) and the loop continues.
C9_RaisingProductSkipped ==
    [][RaisingProductNext =>
          /\ UNCHANGED <<all_vertices, all_faces, all_colors, vertex_offset, successful>>
          /\ i' = i + 1 /\ pc' = "loop"]_vars

\* C9 (amended): a tessellated product whose appearance resolution throws is
\* not skipped: the resolver turns the error into None/None, the product is
\* appended with the default gray on every vertex and counted as succeeded;
\* the loop continues with the next product and the run is not aborted.
C9_RaisingProductGetsDefault ==
    [][RaisingProductNext =>
          /\ all_vertices' = Append(all_vertices, Reshape3(products[i + 1].verts))
          /\ Len(all_faces') = Len(all_faces) + 1
          /\ all_colors' = Append(all_colors,
                 [v \in 1..VertexCount(products[i + 1]) |-> <<784, 784, 784, 1000>>])
          /\ vertex_offset' = vertex_offset + VertexCount(products[i + 1])
          /\ successful' = successful + 1
          /\ i' = i + 1 /\ pc' = "loop" /\ result' = "running"]_vars

C9_Witness ==
    /\ pc = "loop"
    /\ i = 2 /\ Len(products) = 3
    /\ Contributes(products[2]) /\ ResolutionRaises(products[2])
    /\ successful = 2
    /\ all_colors[2] = <<<<784, 784, 784, 1000>>, <<784, 784, 784, 1000>>,
                         <<784, 784, 784, 1000>>>>

====
